---- MODULE Spec2Model ----
(***************************************************************************)
(* Model of analyze_video_worker_time (src/app.py): the scan that turns    *)
(* per-frame motion areas into active segments, and the statistics over    *)
(* the segment durations.                                                  *)
(*                                                                         *)
(* Numbers.  Durations are quotients of integers, and statistics.mean /    *)
(* statistics.stdev compute with exact fractions, so a number is modelled  *)
(* exactly as a record [num, den, surd]: num/den in lowest terms with      *)
(* den > 0, or the square root of num/den when surd is TRUE.  Rounding of  *)
(* IEEE doubles is not modelled.                                           *)
(***************************************************************************)
EXTENDS Integers, Sequences, FiniteSets, TLC

\* ---------------------------------------------------------------- bounds
MaxFrames == 4
RunsMaxFrames == 2
MaxRuns == 3

\* values cap.get(CAP_PROP_FPS) is drawn from: a broken header yields 0 or
\* a negative quotient, a sound one a positive rate
FpsValues == {-1, 0, 2, 3}
RunsFpsValues == {0, 2}

\* the slider's lowest setting and the default of min_area_threshold
SliderMinThreshold == 1000
DefaultMinAreaThreshold == 5000
Thresholds == {SliderMinThreshold, DefaultMinAreaThreshold}
\* motion areas cv2.countNonZero can return, on both sides of each threshold
AreaValues == {SliderMinThreshold, DefaultMinAreaThreshold, DefaultMinAreaThreshold + 1}
RunsAreaValues == {DefaultMinAreaThreshold, DefaultMinAreaThreshold + 1}

\* ------------------------------------------------------------ arithmetic
Abs(n) == IF n < 0 THEN -n ELSE n

RECURSIVE GCD(_, _)
GCD(a, b) == IF b = 0 THEN a ELSE GCD(b, a % b)

\* n / d for d # 0, in lowest terms
Rat(n, d) ==
    LET s == IF d < 0 THEN -1 ELSE 1
        g == GCD(Abs(n), Abs(d))
    IN  [num |-> (s * n) \div g, den |-> (s * d) \div g, surd |-> FALSE]

Zero == Rat(0, 1)

\* each operand is bound once (a \in {p}) so that it is evaluated once
RatAdd(p, q) ==
    CHOOSE r \in {Rat(a.num * b.den + b.num * a.den, a.den * b.den) : a \in {p}, b \in {q}} : TRUE
RatSub(p, q) ==
    CHOOSE r \in {Rat(a.num * b.den - b.num * a.den, a.den * b.den) : a \in {p}, b \in {q}} : TRUE
RatMul(p, q) ==
    CHOOSE r \in {Rat(a.num * b.num, a.den * b.den) : a \in {p}, b \in {q}} : TRUE
RatDivInt(p, n) ==
    CHOOSE r \in {Rat(a.num, a.den * n) : a \in {p}} : TRUE
RatLeq(p, q) == p.num * q.den <= q.num * p.den
RatLess(p, q) == p.num * q.den < q.num * p.den

IsSquare(n) == \E k \in 0..n : k * k = n
ISqrt(n) == CHOOSE k \in 0..n : k * k = n

\* math.sqrt of a rational q >= 0: rational when q is a square, else a surd
Sqrt(q) ==
    IF IsSquare(q.num) /\ IsSquare(q.den)
    THEN [num |-> ISqrt(q.num), den |-> ISqrt(q.den), surd |-> FALSE]
    ELSE [num |-> q.num, den |-> q.den, surd |-> TRUE]

\* ------------------------------------------------------- library functions
StatisticsError == [error |-> "StatisticsError"]

\* builtin sum(): starts from 0 and adds the elements from left to right
RECURSIVE builtin_sum(_)
builtin_sum(data) ==
    IF Len(data) = 0 THEN Zero
    ELSE RatAdd(builtin_sum(SubSeq(data, 1, Len(data) - 1)), data[Len(data)])

\* statistics.mean: sum / n, StatisticsError on no data
statistics_mean(data) ==
    IF Len(data) < 1 THEN StatisticsError
    ELSE RatDivInt(builtin_sum(data), Len(data))

RECURSIVE SumSqDev(_, _)
SumSqDev(data, c) ==
    IF Len(data) = 0 THEN Zero
    ELSE LET d == RatSub(data[Len(data)], c)
         IN  RatAdd(SumSqDev(SubSeq(data, 1, Len(data) - 1), c), RatMul(d, d))

\* statistics.stdev: sqrt(ss / (n - 1)), StatisticsError on fewer than 2 points
statistics_stdev(data) ==
    IF Len(data) < 2 THEN StatisticsError
    ELSE Sqrt(RatDivInt(SumSqDev(data, statistics_mean(data)), Len(data) - 1))

\* ------------------------------------------------------------------ state
None == <<>>
Some(x) == <<x>>

VARIABLES
    \* the video file behind video_path, and the parameter
    can_open,            \* cap.isOpened() after construction
    prop_fps,            \* cap.get(cv2.CAP_PROP_FPS)
    prop_frame_count,    \* int(cap.get(cv2.CAP_PROP_FRAME_COUNT))
    frames,              \* motion_area of each frame cap.read() delivers
    min_area_threshold,
    \* the invocation
    pc, cap, error, result,
    fps, total_frames, total_duration,
    active_segments, segment_start, frame_index,
    total_active_time, mean_segment_duration, std_segment_duration,
    \* history: the (segment_start, segment_end) pair behind each appended duration
    segment_bounds,
    \* repeated invocations
    run_count, remembered

inputVars == <<can_open, prop_fps, prop_frame_count, frames, min_area_threshold>>
metaVars == <<fps, total_frames, total_duration>>
scanVars == <<active_segments, segment_start, frame_index, segment_bounds>>
statVars == <<total_active_time, mean_segment_duration, std_segment_duration>>
runVars == <<run_count, remembered>>
vars == <<inputVars, pc, cap, error, result, metaVars, scanVars, statVars, runVars>>

SeqsUpTo(S, n) == UNION {[1..k -> S] : k \in 0..n}

\* the locals of an invocation are unbound until their first assignment;
\* they carry placeholders here and are never read before being assigned
InitLocals ==
    /\ pc = "open" /\ cap = "none" /\ error = None /\ result = None
    /\ fps = 0 /\ total_frames = 0 /\ total_duration = Zero
    /\ active_segments = <<>> /\ segment_start = None /\ frame_index = 0
    /\ segment_bounds = <<>>
    /\ total_active_time = Zero
    /\ mean_segment_duration = Zero /\ std_segment_duration = Zero

Init ==
    /\ can_open \in BOOLEAN
    /\ prop_fps \in FpsValues
    /\ prop_frame_count \in 0..MaxFrames
    /\ frames \in SeqsUpTo(AreaValues, MaxFrames)
    /\ min_area_threshold \in Thresholds
    /\ InitLocals
    /\ run_count = 1 /\ remembered = None

\* ---------------------------------------------------------------- actions
\* Open without the test of line 36: an unopened capture is used as it is
Open_IgnoreFailure ==
    /\ pc = "open"
    /\ cap' = IF can_open THEN "opened" ELSE "unopened"
    /\ pc' = "meta"
    /\ error' = error
    /\ UNCHANGED <<inputVars, result, metaVars, scanVars, statVars, runVars>>

\* lines 35-37
Open ==
    /\ pc = "open"
    /\ IF can_open
       THEN /\ cap' = "opened" /\ pc' = "meta" /\ error' = error
       ELSE /\ cap' = "unopened" /\ pc' = "raised" /\ error' = Some("IOError")
    /\ UNCHANGED <<inputVars, result, metaVars, scanVars, statVars, runVars>>

\* lines 40-42: the float division raises ZeroDivisionError when fps is 0
ReadMeta ==
    /\ pc = "meta"
    /\ fps' = prop_fps
    /\ total_frames' = prop_frame_count
    /\ IF prop_fps = 0
       THEN /\ pc' = "raised" /\ error' = Some("ZeroDivisionError")
            /\ total_duration' = total_duration
       ELSE /\ pc' = "init" /\ error' = error
            /\ total_duration' = Rat(prop_frame_count, prop_fps)
    /\ UNCHANGED <<inputVars, cap, result, scanVars, statVars, runVars>>

\* InitScan with the segment list kept in storage that outlives the call
InitScan_KeepSegments ==
    /\ pc = "init"
    /\ segment_start' = None
    /\ frame_index' = 0
    /\ pc' = "loop"
    /\ UNCHANGED <<inputVars, cap, error, result, metaVars, statVars, runVars,
                   active_segments, segment_bounds>>

\* lines 44-51
InitScan ==
    /\ pc = "init"
    /\ active_segments' = <<>>
    /\ segment_start' = None
    /\ frame_index' = 0
    /\ segment_bounds' = <<>>
    /\ pc' = "loop"
    /\ UNCHANGED <<inputVars, cap, error, result, metaVars, statVars, runVars>>

\* line 64 with >= : a frame whose motion area equals the threshold is active
IsActive_AtLeast(motion_area, threshold) == motion_area >= threshold

\* line 64
IsActive(motion_area, threshold) == motion_area > threshold

\* LoopBody without line 72: the closed segment stays open
LoopBody_NoReset(st, motion_area, threshold, rate) ==
    IF motion_area > threshold
    THEN IF st.segment_start = None
         THEN [st EXCEPT !.segment_start = Some(st.frame_index),
                         !.frame_index = st.frame_index + 1]
         ELSE [st EXCEPT !.frame_index = st.frame_index + 1]
    ELSE IF st.segment_start # None
         THEN LET segment_end == st.frame_index
                  duration_in_seconds == Rat(segment_end - st.segment_start[1], rate)
              IN  [st EXCEPT !.active_segments = Append(@, duration_in_seconds),
                             !.segment_bounds = Append(@, <<st.segment_start[1], segment_end>>),
                             !.frame_index = st.frame_index + 1]
         ELSE [st EXCEPT !.frame_index = st.frame_index + 1]

\* LoopBody with an inclusive end index: the closing frame is counted
LoopBody_OffByOne(st, motion_area, threshold, rate) ==
    IF motion_area > threshold
    THEN IF st.segment_start = None
         THEN [st EXCEPT !.segment_start = Some(st.frame_index),
                         !.frame_index = st.frame_index + 1]
         ELSE [st EXCEPT !.frame_index = st.frame_index + 1]
    ELSE IF st.segment_start # None
         THEN LET segment_end == st.frame_index + 1
                  duration_in_seconds == Rat(segment_end - st.segment_start[1], rate)
              IN  [st EXCEPT !.active_segments = Append(@, duration_in_seconds),
                             !.segment_bounds = Append(@, <<st.segment_start[1], segment_end>>),
                             !.segment_start = None,
                             !.frame_index = st.frame_index + 1]
         ELSE [st EXCEPT !.frame_index = st.frame_index + 1]

\* LoopBody with line 66 outside the test of line 65: every active frame
\* restarts the segment
LoopBody_RestartOnActive(st, motion_area, threshold, rate) ==
    IF motion_area > threshold
    THEN [st EXCEPT !.segment_start = Some(st.frame_index),
                    !.frame_index = st.frame_index + 1]
    ELSE IF st.segment_start # None
         THEN LET segment_end == st.frame_index
                  duration_in_seconds == Rat(segment_end - st.segment_start[1], rate)
              IN  [st EXCEPT !.active_segments = Append(@, duration_in_seconds),
                             !.segment_bounds = Append(@, <<st.segment_start[1], segment_end>>),
                             !.segment_start = None,
                             !.frame_index = st.frame_index + 1]
         ELSE [st EXCEPT !.frame_index = st.frame_index + 1]

\* LoopBody with line 74 inside the active branch: an inactive frame does
\* not advance frame_index
LoopBody_NoIncrementOnInactive(st, motion_area, threshold, rate) ==
    IF motion_area > threshold
    THEN IF st.segment_start = None
         THEN [st EXCEPT !.segment_start = Some(st.frame_index),
                         !.frame_index = st.frame_index + 1]
         ELSE [st EXCEPT !.frame_index = st.frame_index + 1]
    ELSE IF st.segment_start # None
         THEN LET segment_end == st.frame_index
                  duration_in_seconds == Rat(segment_end - st.segment_start[1], rate)
              IN  [st EXCEPT !.active_segments = Append(@, duration_in_seconds),
                             !.segment_bounds = Append(@, <<st.segment_start[1], segment_end>>),
                             !.segment_start = None]
         ELSE st

\* LoopBody testing the truth value of segment_start in lines 65 and 68
\* instead of "is None": a segment opened at frame 0 counts as absent
LoopBody_TruthyTest(st, motion_area, threshold, rate) ==
    IF motion_area > threshold
    THEN IF st.segment_start = None \/ st.segment_start = Some(0)
         THEN [st EXCEPT !.segment_start = Some(st.frame_index),
                         !.frame_index = st.frame_index + 1]
         ELSE [st EXCEPT !.frame_index = st.frame_index + 1]
    ELSE IF st.segment_start # None /\ st.segment_start # Some(0)
         THEN LET segment_end == st.frame_index
                  duration_in_seconds == Rat(segment_end - st.segment_start[1], rate)
              IN  [st EXCEPT !.active_segments = Append(@, duration_in_seconds),
                             !.segment_bounds = Append(@, <<st.segment_start[1], segment_end>>),
                             !.segment_start = None,
                             !.frame_index = st.frame_index + 1]
         ELSE [st EXCEPT !.frame_index = st.frame_index + 1]

\* LoopBody opening the segment at the index after the first active frame
LoopBody_LateStart(st, motion_area, threshold, rate) ==
    IF motion_area > threshold
    THEN IF st.segment_start = None
         THEN [st EXCEPT !.segment_start = Some(st.frame_index + 1),
                         !.frame_index = st.frame_index + 1]
         ELSE [st EXCEPT !.frame_index = st.frame_index + 1]
    ELSE IF st.segment_start # None
         THEN LET segment_end == st.frame_index
                  duration_in_seconds == Rat(segment_end - st.segment_start[1], rate)
              IN  [st EXCEPT !.active_segments = Append(@, duration_in_seconds),
                             !.segment_bounds = Append(@, <<st.segment_start[1], segment_end>>),
                             !.segment_start = None,
                             !.frame_index = st.frame_index + 1]
         ELSE [st EXCEPT !.frame_index = st.frame_index + 1]

\* lines 64-74: the loop body as a function of the scan state
LoopBody(st, motion_area, threshold, rate) ==
    IF IsActive(motion_area, threshold)
    THEN IF st.segment_start = None
         THEN [st EXCEPT !.segment_start = Some(st.frame_index),
                         !.frame_index = st.frame_index + 1]
         ELSE [st EXCEPT !.frame_index = st.frame_index + 1]
    ELSE IF st.segment_start # None
         THEN LET segment_end == st.frame_index
                  duration_in_seconds == Rat(segment_end - st.segment_start[1], rate)
              IN  [st EXCEPT !.active_segments = Append(@, duration_in_seconds),
                             !.segment_bounds = Append(@, <<st.segment_start[1], segment_end>>),
                             !.segment_start = None,
                             !.frame_index = st.frame_index + 1]
         ELSE [st EXCEPT !.frame_index = st.frame_index + 1]

ScanState ==
    [active_segments |-> active_segments, segment_start |-> segment_start,
     frame_index |-> frame_index, segment_bounds |-> segment_bounds]

\* lines 53-74: cap.read() delivers the next frame and the body runs on it
ScanFrame ==
    /\ pc = "loop"
    /\ frame_index < Len(frames)
    /\ LET st == LoopBody(ScanState, frames[frame_index + 1], min_area_threshold, fps)
       IN  /\ active_segments' = st.active_segments
           /\ segment_start' = st.segment_start
           /\ frame_index' = st.frame_index
           /\ segment_bounds' = st.segment_bounds
    /\ UNCHANGED <<inputVars, pc, cap, error, result, metaVars, statVars, runVars>>

\* lines 54-56: the read fails at the end of the stream and the loop exits
ReadFails ==
    /\ pc = "loop"
    /\ frame_index >= Len(frames)
    /\ pc' = "final"
    /\ UNCHANGED <<inputVars, cap, error, result, metaVars, scanVars, statVars, runVars>>

\* Finalize closing at the index of the last frame instead of one past it
Finalize_LastIndex ==
    /\ pc = "final"
    /\ IF segment_start # None
       THEN LET segment_end == frame_index - 1
                duration_in_seconds == Rat(segment_end - segment_start[1], fps)
            IN  /\ active_segments' = Append(active_segments, duration_in_seconds)
                /\ segment_bounds' = Append(segment_bounds, <<segment_start[1], segment_end>>)
       ELSE UNCHANGED <<active_segments, segment_bounds>>
    /\ pc' = "release"
    /\ UNCHANGED <<inputVars, cap, error, result, metaVars, segment_start, frame_index,
                   statVars, runVars>>

\* Finalize without lines 77-80: a run open at the end of the stream is dropped
Finalize_Drop ==
    /\ pc = "final"
    /\ pc' = "release"
    /\ UNCHANGED <<inputVars, cap, error, result, metaVars, scanVars, statVars, runVars>>

\* lines 76-80
Finalize ==
    /\ pc = "final"
    /\ IF segment_start # None
       THEN LET segment_end == frame_index
                duration_in_seconds == Rat(segment_end - segment_start[1], fps)
            IN  /\ active_segments' = Append(active_segments, duration_in_seconds)
                /\ segment_bounds' = Append(segment_bounds, <<segment_start[1], segment_end>>)
       ELSE UNCHANGED <<active_segments, segment_bounds>>
    /\ pc' = "release"
    /\ UNCHANGED <<inputVars, cap, error, result, metaVars, segment_start, frame_index,
                   statVars, runVars>>

\* line 82
Release ==
    /\ pc = "release"
    /\ cap' = "released"
    /\ pc' = "stats"
    /\ UNCHANGED <<inputVars, error, result, metaVars, scanVars, statVars, runVars>>

\* the total taken over all segments but the first
TotalActiveTime_SkipFirst(segments) ==
    IF Len(segments) = 0 THEN Zero ELSE builtin_sum(Tail(segments))

\* line 84
TotalActiveTime(segments) == builtin_sum(segments)

\* the mean without the guard of line 86
MeanSegmentDuration_NoGuard(segments) == statistics_mean(segments)

\* lines 86-87, 91-92
MeanSegmentDuration(segments) ==
    IF Len(segments) > 0 THEN statistics_mean(segments) ELSE Zero

\* the population standard deviation (dividing by n) in place of stdev
StdSegmentDuration_Population(segments) ==
    IF Len(segments) > 0
    THEN IF Len(segments) > 1
         THEN Sqrt(RatDivInt(SumSqDev(segments, statistics_mean(segments)), Len(segments)))
         ELSE Zero
    ELSE Zero

\* lines 86-93
StdSegmentDuration(segments) ==
    IF Len(segments) > 0
    THEN IF Len(segments) > 1 THEN statistics_stdev(segments) ELSE Zero
    ELSE Zero

\* lines 84-93
Aggregate ==
    /\ pc = "stats"
    /\ LET m == MeanSegmentDuration(active_segments)
           s == StdSegmentDuration(active_segments)
       IN  IF m = StatisticsError \/ s = StatisticsError
           THEN /\ pc' = "raised" /\ error' = Some("StatisticsError")
                /\ UNCHANGED statVars
           ELSE /\ pc' = "return" /\ error' = error
                /\ total_active_time' = TotalActiveTime(active_segments)
                /\ mean_segment_duration' = m
                /\ std_segment_duration' = s
    /\ UNCHANGED <<inputVars, cap, result, metaVars, scanVars, runVars>>

\* lines 95-103
Report ==
    [fps |-> fps,
     frame_count |-> total_frames,
     total_time |-> total_duration,
     total_active_time |-> total_active_time,
     active_segments |-> active_segments,
     mean_segment_duration |-> mean_segment_duration,
     std_segment_duration |-> std_segment_duration]

Return ==
    /\ pc = "return"
    /\ result' = Some(Report)
    /\ pc' = "done"
    /\ UNCHANGED <<inputVars, cap, error, metaVars, scanVars, statVars, runVars>>

Next ==
    \/ Open
    \/ ReadMeta
    \/ InitScan
    \/ ScanFrame
    \/ ReadFails
    \/ Finalize
    \/ Release
    \/ Aggregate
    \/ Return

Spec == Init /\ [][Next]_vars

\* ------------------------------------------------- repeated invocations
\* main() calls analyze_video_worker_time again on every rerun of the page.
\* The locals of the finished invocation are dead storage: they keep their
\* last values here, and lines 35-51 assign each one before it is read.
CurrentInput ==
    [can_open |-> can_open, prop_fps |-> prop_fps,
     prop_frame_count |-> prop_frame_count, frames |-> frames,
     min_area_threshold |-> min_area_threshold]

Outcome == [pc |-> pc, error |-> error, result |-> result]

\* the videos of the repeated calls: a smaller family, with a frame count in
\* the header that agrees with the stream
InitRuns ==
    /\ can_open \in BOOLEAN
    /\ prop_fps \in RunsFpsValues
    /\ frames \in SeqsUpTo(RunsAreaValues, RunsMaxFrames)
    /\ prop_frame_count = Len(frames)
    /\ min_area_threshold = DefaultMinAreaThreshold
    /\ InitLocals
    /\ run_count = 1 /\ remembered = None

\* lines 130-133: the next call, on any video; the caller may have kept the
\* input and the outcome of the call that just ended
Rerun ==
    /\ pc \in {"done", "raised"}
    /\ run_count < MaxRuns
    /\ run_count' = run_count + 1
    /\ remembered' \in {remembered,
                        Some([run |-> run_count, input |-> CurrentInput, outcome |-> Outcome])}
    /\ can_open' \in BOOLEAN
    /\ prop_fps' \in RunsFpsValues
    /\ frames' \in SeqsUpTo(RunsAreaValues, RunsMaxFrames)
    /\ prop_frame_count' = Len(frames')
    /\ min_area_threshold' = DefaultMinAreaThreshold
    /\ pc' = "open" /\ cap' = "none" /\ error' = None /\ result' = None
    /\ UNCHANGED <<metaVars, scanVars, statVars>>

NextRuns == Next \/ Rerun

SpecRuns == InitRuns /\ [][NextRuns]_vars

\* ------------------------------------------------------------ properties
\* the activity flag of frame i (0-based) of the stream, as the docstring
\* states it: the motion area is above the threshold
Flag(i) == frames[i + 1] > min_area_threshold

NumFrames == Len(frames)

\* the maximal runs of consecutive active frames, as half-open intervals
MaximalRuns ==
    {r \in (0..NumFrames) \X (0..NumFrames) :
        /\ r[1] < r[2]
        /\ \A i \in r[1]..(r[2] - 1) : Flag(i)
        /\ (r[1] = 0 \/ ~Flag(r[1] - 1))
        /\ (r[2] = NumFrames \/ ~Flag(r[2]))}

\* the maximal runs in increasing order of start
RunSeq ==
    [k \in 1..Cardinality(MaximalRuns) |->
        CHOOSE r \in MaximalRuns :
            Cardinality({q \in MaximalRuns : q[1] < r[1]}) = k - 1]

Scanned == pc \in {"release", "stats", "return", "done"}
Returned == pc = "done" /\ result # None
TheReport == result[1]

\* C1: for fps > 0, the segments the scan and the finalization append are
\* exactly the maximal runs of active frames: one per run, of the run's
\* length, non-overlapping and in increasing order of start.
C1_SegmentsAreMaximalRuns ==
    (Scanned /\ prop_fps > 0) =>
        /\ segment_bounds = RunSeq
        /\ Len(active_segments) = Cardinality(MaximalRuns)
        /\ \A k \in 1..Len(active_segments) :
              active_segments[k] = Rat(RunSeq[k][2] - RunSeq[k][1], prop_fps)
        /\ \A j, k \in 1..Len(segment_bounds) :
              j < k => segment_bounds[j][2] <= segment_bounds[k][1]
        /\ (Returned => TheReport.active_segments = active_segments)

C1_Witness ==
    /\ Returned /\ prop_fps > 0
    /\ Len(TheReport.active_segments) = 2
    /\ NumFrames = 4 /\ Flag(0) /\ Flag(1) /\ ~Flag(2) /\ Flag(3)

\* C2: with fps <= 0 the function fails before any frame is scanned and
\* before any segment is appended, and never returns a report.
C2_NonPositiveFpsRejected ==
    prop_fps <= 0 => (pc \in {"open", "meta", "raised"} /\ result = None)

\* lines 49-74 as a function: the scan state after the loop has consumed fs
RECURSIVE RunLoop(_, _, _)
RunLoop(fs, threshold, rate) ==
    IF Len(fs) = 0
    THEN [active_segments |-> <<>>, segment_start |-> None,
          frame_index |-> 0, segment_bounds |-> <<>>]
    ELSE LoopBody(RunLoop(SubSeq(fs, 1, Len(fs) - 1), threshold, rate),
                  fs[Len(fs)], threshold, rate)

\* C3: a segment still open after the last frame is closed by the
\* finalization with end = the number of frames, and the segment list is the
\* one the loop yields on the same stream followed by one inactive frame.
C3_FinalizationClosesTrailingRun ==
    (pc = "release" /\ segment_start # None) =>
        /\ frame_index = NumFrames
        /\ Len(segment_bounds) > 0
        /\ segment_bounds[Len(segment_bounds)] = <<segment_start[1], NumFrames>>
        /\ active_segments =
              RunLoop(Append(frames, min_area_threshold), min_area_threshold, fps).active_segments

C3_Witness ==
    /\ pc = "release" /\ segment_start # None
    /\ Len(active_segments) = 2
    /\ segment_bounds[2][2] - segment_bounds[2][1] = 2

\* C4: every duration in active_segments is non-negative and every appended
\* segment covers at least one frame (end > start).
C4_DurationsNonNegative ==
    /\ Len(segment_bounds) = Len(active_segments)
    /\ \A k \in 1..Len(active_segments) :
          /\ RatLeq(Zero, active_segments[k])
          /\ segment_bounds[k][2] > segment_bounds[k][1]

\* accumulation from the left: ((0 + d1) + d2) + ...
RECURSIVE AccumulateFrom(_, _, _)
AccumulateFrom(ds, k, acc) ==
    IF k > Len(ds) THEN acc ELSE AccumulateFrom(ds, k + 1, RatAdd(acc, ds[k]))

LeftSum(ds) == AccumulateFrom(ds, 1, Zero)

\* C5: in every returned report total_active_time is the left-to-right sum
\* of the durations in the report's active_segments (0 for the empty list).
C5_TotalIsSumOfSegments ==
    Returned => TheReport.total_active_time = LeftSum(TheReport.active_segments)

C5_Witness ==
    /\ Returned
    /\ Len(TheReport.active_segments) = 2
    /\ TheReport.active_segments[1] # TheReport.active_segments[2]
    /\ TheReport.total_active_time = Rat(3, 2)

AllInactive == \A i \in 0..(NumFrames - 1) : ~Flag(i)
AllActive == \A i \in 0..(NumFrames - 1) : Flag(i)

\* C6: on a stream of inactive frames only (the empty stream included) with
\* fps > 0 the function does not fail, and the report has no segment and
\* zero total, mean and standard deviation.
C6_AllInactiveGivesZeroReport ==
    (can_open /\ prop_fps > 0 /\ AllInactive) =>
        /\ pc # "raised"
        /\ error = None
        /\ (Returned =>
              /\ TheReport.active_segments = <<>>
              /\ TheReport.total_active_time = Zero
              /\ TheReport.mean_segment_duration = Zero
              /\ TheReport.std_segment_duration = Zero)

C6_Witness ==
    /\ Returned /\ prop_fps > 0 /\ AllInactive
    /\ NumFrames = 0
    /\ TheReport.active_segments = <<>>

\* the square of a number of the model
Square(x) ==
    IF x.surd THEN [num |-> x.num, den |-> x.den, surd |-> FALSE] ELSE RatMul(x, x)

RECURSIVE SquaredDeviations(_, _, _)
SquaredDeviations(ds, k, c) ==
    IF k > Len(ds) THEN Zero
    ELSE RatAdd(RatMul(RatSub(ds[k], c), RatSub(ds[k], c)), SquaredDeviations(ds, k + 1, c))

\* C7: the standard deviation is 0 for 0 or 1 segments and the mean is 0 for
\* 0 segments; for 2 or more segments the standard deviation is the sample
\* one (squared deviations from the mean over n - 1) and the mean is the
\* arithmetic mean; the statistics step never fails.
C7_StatisticsOfSegments ==
    /\ error # Some("StatisticsError")
    /\ Returned =>
          LET ds == TheReport.active_segments
              n == Len(ds)
              m == TheReport.mean_segment_duration
              sd == TheReport.std_segment_duration
          IN  /\ (n = 0 => m = Zero)
              /\ (n <= 1 => sd = Zero)
              /\ (n >= 1 => ~m.surd /\ RatMul(m, Rat(n, 1)) = LeftSum(ds))
              /\ (n >= 2 =>
                    /\ sd.num >= 0
                    /\ RatMul(Square(sd), Rat(n - 1, 1)) = SquaredDeviations(ds, 1, m))

C7_Witness ==
    /\ Returned
    /\ Len(TheReport.active_segments) = 2
    /\ TheReport.std_segment_duration # Zero
    /\ TheReport.std_segment_duration.surd

\* C8: n >= 1 frames, all active, at rate r > 0 give exactly one segment, of
\* duration n / r, and it is the finalization that closes it.
C8_AllActiveGivesOneSegment ==
    (prop_fps > 0 /\ NumFrames >= 1 /\ AllActive) =>
        /\ (pc = "final" => active_segments = <<>> /\ segment_start = Some(0))
        /\ (Scanned => segment_bounds = <<(<<0, NumFrames>>)>>)
        /\ (Returned => TheReport.active_segments = <<Rat(NumFrames, prop_fps)>>)

C8_Witness ==
    /\ Returned /\ prop_fps = 2 /\ NumFrames = 3 /\ AllActive
    /\ Len(TheReport.active_segments) = 1

\* the stream is k active frames followed by inactive frames only, at least one
RunThenInactive(k) ==
    /\ k >= 1 /\ k < NumFrames
    /\ \A i \in 0..(k - 1) : Flag(i)
    /\ \A i \in k..(NumFrames - 1) : ~Flag(i)

\* C9: one active run of k >= 1 frames followed by m >= 1 inactive frames at
\* rate r > 0 gives exactly one segment, of duration k / r, whatever m is.
C9_SingleRunDuration ==
    \A k \in 1..NumFrames :
        (prop_fps > 0 /\ RunThenInactive(k) /\ Returned) =>
            TheReport.active_segments = <<Rat(k, prop_fps)>>

C9_Witness ==
    /\ Returned /\ prop_fps = 3 /\ NumFrames = 4 /\ RunThenInactive(2)
    /\ TheReport.active_segments = <<Rat(2, 3)>>

\* C10: an invocation on the input of an earlier invocation ends with the
\* same outcome (the same report, or the same failure), whatever ran before
\* and in between.
C10_SameInputSameOutcome ==
    (pc \in {"done", "raised"} /\ remembered # None
        /\ remembered[1].input = CurrentInput) =>
            remembered[1].outcome = Outcome

C10_Witness ==
    /\ Returned /\ remembered # None
    /\ remembered[1].input = CurrentInput
    /\ run_count - remembered[1].run >= 2
    /\ Len(TheReport.active_segments) >= 1
    /\ segment_start # None

\* C11: the frame_count of every returned report is the number of frames the
\* scan consumed (the final frame_index, the length of the stream), and
\* total_time is that frame_count divided by fps.
C11_FrameCountIsFramesScanned ==
    Returned =>
        /\ frame_index = NumFrames
        /\ TheReport.frame_count = frame_index
        /\ TheReport.total_time = Rat(TheReport.frame_count, TheReport.fps)

\* a step of the loop on the next frame, and the step of the finalization
ScanStep == pc = "loop" /\ pc' = "loop"
FinalStep == pc = "final" /\ pc' = "release"
\* the activity flag of the frame a scan step consumes
NextFlag == Flag(frame_index)

GrowsByOne(old, new) ==
    Len(new) = Len(old) + 1 /\ SubSeq(new, 1, Len(old)) = old

\* C12: a scan step on an active frame with segment_start present, or on an
\* inactive frame with segment_start absent, changes neither segment_start
\* nor active_segments and advances frame_index by one; active_segments
\* changes only on an inactive frame with segment_start present or at the
\* finalization, and then grows by exactly one element.
C12_FrameEffect ==
    [][ /\ (ScanStep /\ NextFlag /\ segment_start # None) =>
              /\ segment_start' = segment_start
              /\ active_segments' = active_segments
              /\ frame_index' = frame_index + 1
        /\ (ScanStep /\ ~NextFlag /\ segment_start = None) =>
              /\ segment_start' = segment_start
              /\ active_segments' = active_segments
              /\ frame_index' = frame_index + 1
        /\ (active_segments' # active_segments) =>
              /\ \/ (ScanStep /\ ~NextFlag /\ segment_start # None)
                 \/ (FinalStep /\ segment_start # None)
              /\ GrowsByOne(active_segments, active_segments')
        /\ (ScanStep /\ ~NextFlag /\ segment_start # None) =>
              GrowsByOne(active_segments, active_segments')
      ]_vars

\* both unchanged cases have acted: frames 0..3 are active, active,
\* inactive, inactive and all four are consumed
C12_Witness ==
    /\ pc = "loop" /\ frame_index = 4
    /\ Flag(0) /\ Flag(1) /\ ~Flag(2) /\ ~Flag(3)
    /\ segment_start = None
    /\ segment_bounds = <<(<<0, 2>>)>>

\* the motion area of the frame a scan step consumes
NextArea == frames[frame_index + 1]

\* C13: a frame is active exactly when its motion area is strictly above
\* min_area_threshold; a frame whose area equals the threshold is inactive:
\* it opens no segment and it closes an open one.
C13_StrictThreshold ==
    [][ ScanStep =>
          /\ (NextArea > min_area_threshold) => segment_start' # None
          /\ (NextArea <= min_area_threshold) => segment_start' = None
          /\ (NextArea = min_area_threshold /\ segment_start = None) =>
                active_segments' = active_segments
          /\ (NextArea = min_area_threshold /\ segment_start # None) =>
                /\ GrowsByOne(active_segments, active_segments')
                /\ segment_bounds'[Len(segment_bounds')] = <<segment_start[1], frame_index>>
      ]_vars

\* a frame at the threshold has closed the segment the frame before it opened,
\* and a second one has opened nothing
C13_Witness ==
    /\ pc = "loop" /\ frame_index = 3
    /\ frames[1] > min_area_threshold
    /\ frames[2] = min_area_threshold
    /\ frames[3] = min_area_threshold
    /\ segment_start = None
    /\ segment_bounds = <<(<<0, 1>>)>>

\* C14: when the video cannot be opened the function raises IOError and
\* returns no report, before fps and the frame count are read and before any
\* frame is scanned.
C14_OpenFailureRaises ==
    ~can_open =>
        /\ pc \in {"open", "raised"}
        /\ result = None
        /\ (pc = "raised" => error = Some("IOError") /\ cap = "unopened")
        /\ frame_index = 0 /\ active_segments = <<>>

C14_Witness ==
    /\ ~can_open /\ pc = "raised"
    /\ error = Some("IOError")
    /\ result = None
    /\ prop_fps > 0 /\ NumFrames > 0

\* the function body is sequential code: the statement at pc is executed
LiveSpec == Init /\ [][Next]_vars /\ WF_vars(Next)

\* C15: on every finite stream with fps > 0 the scan is one forward pass that
\* ends with a returned report: frame_index starts at 0, grows by exactly one
\* per frame consumed, never passes the end of the stream, and the loop
\* exits at the first failed read.
C15_ScanTerminates ==
    /\ [][pc = "init" => frame_index' = 0]_vars
    /\ [][ScanStep => (frame_index < NumFrames /\ frame_index' = frame_index + 1)]_vars
    /\ [][(pc = "loop" /\ pc' # "loop") => (frame_index = NumFrames /\ pc' = "final")]_vars
    /\ [](pc \in {"loop", "final"} => frame_index <= NumFrames)
    /\ ((can_open /\ prop_fps > 0) ~> (Returned /\ frame_index = NumFrames))

C15_Witness ==
    /\ Returned /\ prop_fps > 0
    /\ NumFrames = 4 /\ frame_index = 4
    /\ Flag(0) /\ ~Flag(1) /\ ~Flag(2) /\ Flag(3)

\* C16: after frame i = frame_index - 1 has been processed, segment_start is
\* present exactly when frame i was active; when present it is the first
\* frame of the run that contains frame i: segment_start <= i, every frame
\* in [segment_start, i] is active and frame segment_start - 1, if any, is
\* inactive.  Before the first frame segment_start is absent.
C16_OpenSegmentInvariant ==
    pc \in {"loop", "final"} =>
        /\ (frame_index = 0 => segment_start = None)
        /\ (frame_index >= 1 =>
              /\ frame_index <= NumFrames
              /\ (segment_start # None) <=> Flag(frame_index - 1)
              /\ (segment_start # None =>
                    /\ segment_start[1] >= 0
                    /\ segment_start[1] <= frame_index - 1
                    /\ \A i \in segment_start[1]..(frame_index - 1) : Flag(i)
                    /\ (segment_start[1] >= 1 => ~Flag(segment_start[1] - 1))))

\* a segment opened at frame 0 is still open after three active frames
C16_Witness ==
    /\ pc = "loop" /\ frame_index = 3
    /\ segment_start = Some(0)
    /\ Flag(0) /\ Flag(1) /\ Flag(2)

\* the number of active frames among the first n frames of the stream
ActiveAmong(n) == Cardinality({i \in 0..(n - 1) : Flag(i)})

\* the frames covered by the segments appended so far
RECURSIVE FramesIn(_)
FramesIn(bounds) ==
    IF Len(bounds) = 0 THEN 0
    ELSE FramesIn(SubSeq(bounds, 1, Len(bounds) - 1))
            + (bounds[Len(bounds)][2] - bounds[Len(bounds)][1])

OpenFrames == IF segment_start = None THEN 0 ELSE frame_index - segment_start[1]

C18_ActiveTimeWithinTotalTime ==
    (Returned /\ prop_fps > 0) =>
        RatLeq(TheReport.total_active_time, TheReport.total_time)

\* C19: once the capture has been opened, it has been released whenever the
\* function has exited, by return or by an exception.
C19_CaptureReleasedOnExit ==
    (pc \in {"done", "raised"} /\ can_open) => cap = "released"

====
